---------------------------- MODULE Spec2Model ----------------------------
(***************************************************************************)
(* A model of vunit/sim_if/activehdl.py: the Active-HDL simulator adapter. *)
(*                                                                         *)
(* Text that the code parses or formats (library.cfg lines, paths, the     *)
(* banner printed by vcom -version) is a sequence of one-character         *)
(* strings, so that the regular expressions and the pathlib operations are *)
(* computed character by character as the code computes them.              *)
(*                                                                         *)
(* The adapter has five independent parts, each with its own               *)
(* specification over its own variables:                                   *)
(*   SpecLibrary  library.cfg parsing, create_library, setup_library_mapping*)
(*   SpecCompile  compile_vhdl_file_command                                *)
(*   SpecProbe    supports_vhdl_package_generics and VersionConsumer       *)
(*   SpecBatch    execution of the generated batch.tcl                     *)
(*   SpecSim      simulate() on two threads and merge_coverage()           *)
(***************************************************************************)
EXTENDS Integers, Sequences, FiniteSets, TLC

VARIABLES
    \* ---- library registry (SpecLibrary)
    output_path,        \* the adapter's output_path; library.cfg lives in it
    library_cfg,        \* content of the library.cfg file: a sequence of lines
    storage,            \* the paths for which file_exists() is true
    libraries,          \* self._libraries
    mapped_libraries,   \* the result of the last _get_mapped_libraries()
    pending,            \* setup_library_mapping: libraries still to create
    lib_call,           \* what the last create_library() call did
    \* ---- compile command builder (SpecCompile)
    source_file,        \* the source file descriptor handed to the builder
    compile_result,     \* what compile_vhdl_file_command returned or raised
    \* ---- version probe (SpecProbe)
    probe_output,       \* the lines vcom -version prints
    probe_outcome,      \* how the vcom process ends
    probe_pc,           \* where supports_vhdl_package_generics is
    probe_fed,          \* number of lines handed to the consumer so far
    consumer_version,   \* VersionConsumer.version
    probe_result,       \* what supports_vhdl_package_generics returned
    \* ---- the batch script in the simulator's tcl shell (SpecBatch)
    batch_script,       \* the statements of batch.tcl
    vsim_fails,         \* whether the vsim command of vunit_load fails
    suite_done,         \* what is_test_suite_done says after run -all
    bt_fails,           \* whether the bt command fails
    assert_stop_level,  \* config.vhdl_assert_stop_level
    tcl_pc,             \* the statement of batch.tcl to execute next
    tcl_sourced,        \* whether common.tcl has been sourced
    tcl_failed,         \* the tcl variable failed
    tcl_exit,           \* the exit status of the session, once it has quit
    breakassertlevel,   \* the tcl global breakassertlevel
    load_calls,         \* number of calls of vunit_load
    run_calls,          \* number of calls of vunit_run
    \* ---- the adapter in the run phase (SpecSim, SpecCoverage)
    gui,                \* self._gui
    elaborate_only,     \* self.elaborate_only
    coverage_files,     \* self._coverage_files
    files,              \* the script files on disk: path -> content
    cov_exists,         \* the coverage files on disk
    load_generated,     \* the configurations whose load script was generated
    sim_pc,             \* per thread: where its simulate() call is
    sim_cfg,            \* per thread: the configuration of its call
    sim_proc,           \* per thread: how its simulator process ends
    sim_ret,            \* per thread: what simulate() returned
    sim_events,         \* per thread: the writes and launches of its call
    overlapped,         \* whether two simulate() calls were ever in progress at once
    last_merge,         \* what the last merge_coverage() call did
    offered             \* the artifacts earlier merge commands took as inputs

varsLibrary == <<output_path, library_cfg, storage, libraries, mapped_libraries,
                 pending, lib_call>>

varsCompile == <<source_file, compile_result>>

varsProbe == <<probe_output, probe_outcome, probe_pc, probe_fed, consumer_version,
               probe_result>>

varsBatch == <<batch_script, vsim_fails, suite_done, bt_fails, assert_stop_level,
               tcl_pc, tcl_sourced, tcl_failed, tcl_exit, breakassertlevel,
               load_calls, run_calls>>

varsSim == <<gui, coverage_files, files, cov_exists, load_generated, sim_pc,
             sim_cfg, sim_proc, sim_ret, sim_events, overlapped, last_merge,
             offered>>

vars == <<varsLibrary, varsCompile, varsProbe, varsBatch, varsSim, elaborate_only>>

\* what the actions of one part leave alone
othersLibrary == <<varsCompile, varsProbe, varsBatch, varsSim, elaborate_only>>

othersCompile == <<varsLibrary, varsProbe, varsBatch, varsSim, elaborate_only>>

othersProbe == <<varsLibrary, varsCompile, varsBatch, varsSim, elaborate_only>>

othersBatch == <<varsLibrary, varsCompile, varsProbe, varsSim>>

othersSim == <<varsLibrary, varsCompile, varsProbe, varsBatch>>

-----------------------------------------------------------------------------
(* Bounds of the model *)

\* a source file has at most this many per-file vcom flags
MaxFlags == 2

\* vcom -version prints at most this many lines
MaxLines == 3

-----------------------------------------------------------------------------
(* Characters *)

Letters ==
    {"a","b","c","d","e","f","g","h","i","j","k","l","m","n","o","p","q","r",
     "s","t","u","v","w","x","y","z",
     "A","B","C","D","E","F","G","H","I","J","K","L","M","N","O","P","Q","R",
     "S","T","U","V","W","X","Y","Z"}

\* [a-zA-Z_] of _library_re
NameChars == Letters \cup {"_"}

\* \s, as far as it can occur inside one line
Whitespace == {" ", "\t"}

Quote == "\""

-----------------------------------------------------------------------------
(* pathlib: PurePosixPath parsing, parent, joining, resolve() and str() *)

RECURSIVE SplitSlash(_)
SplitSlash(s) ==
    IF s = <<>> THEN << <<>> >>
    ELSE LET rest == SplitSlash(Tail(s))
         IN  IF Head(s) = "/" THEN << <<>> >> \o rest
             ELSE << <<Head(s)>> \o Head(rest) >> \o Tail(rest)

IsRealPart(c) == c # <<>> /\ c # <<".">>

\* Path(s): empty and single-dot components are dropped, dot-dot is kept
Path(s) ==
    [abs   |-> (s # <<>> /\ Head(s) = "/"),
     parts |-> SelectSeq(SplitSlash(s), IsRealPart)]

\* Path.parent: purely lexical, the parent of a path without components is itself
PathParent(p) ==
    IF p.parts = <<>> THEN p
    ELSE [p EXCEPT !.parts = SubSeq(p.parts, 1, Len(p.parts) - 1)]

\* a / b
PathJoin(a, b) == IF b.abs THEN b ELSE [abs |-> a.abs, parts |-> a.parts \o b.parts]

RECURSIVE Collapse(_, _)
Collapse(todo, done) ==
    IF todo = <<>> THEN done
    ELSE IF Head(todo) = <<".", ".">>
         THEN Collapse(Tail(todo),
                       IF done = <<>> THEN done ELSE SubSeq(done, 1, Len(done) - 1))
         ELSE Collapse(Tail(todo), Append(done, Head(todo)))

\* the working directory of the python process
Cwd == [abs |-> TRUE, parts |-> << <<"w">> >>]

\* Path.resolve() in a file system without symbolic links: made absolute
\* against the working directory, dot-dot collapsed (at the root it stays the root)
PathResolve(p) ==
    [abs   |-> TRUE,
     parts |-> Collapse(IF p.abs THEN p.parts ELSE Cwd.parts \o p.parts, <<>>)]

RECURSIVE JoinSlash(_)
JoinSlash(parts) ==
    IF parts = <<>> THEN <<>>
    ELSE IF Len(parts) = 1 THEN Head(parts)
    ELSE Head(parts) \o <<"/">> \o JoinSlash(Tail(parts))

\* str(path)
PathStr(p) ==
    IF p.parts = <<>> THEN (IF p.abs THEN <<"/">> ELSE <<".">>)
    ELSE (IF p.abs THEN <<"/">> ELSE <<>>) \o JoinSlash(p.parts)

-----------------------------------------------------------------------------
(* _library_re: one or more of [a-zA-Z_], whitespace, an equals sign,       *)
(* whitespace, and a greedy any-characters group between double quotes;    *)
(* applied with re.match                                                   *)

\* length of the longest prefix of s made of characters of cs
RECURSIVE PrefixLen(_, _)
PrefixLen(s, cs) ==
    IF s # <<>> /\ Head(s) \in cs THEN 1 + PrefixLen(Tail(s), cs) ELSE 0

NoMatch == [matched |-> FALSE]

\* The match of the pattern starting at position start of the line.  The name is
\* the longest run of name characters (a shorter one would be followed by a
\* name character, not by whitespace); the value group is greedy, so it ends at the last
\* quote of the line.
LibraryReAt(line, start) ==
    LET s  == SubSeq(line, start, Len(line))
        n  == PrefixLen(s, NameChars)
        qs == {j \in (n + 5)..Len(s) : s[j] = Quote}
    IN  IF /\ n >= 1
           /\ Len(s) >= n + 5
           /\ s[n + 1] \in Whitespace
           /\ s[n + 2] = "="
           /\ s[n + 3] \in Whitespace
           /\ s[n + 4] = Quote
           /\ qs # {}
        THEN LET last == CHOOSE j \in qs : \A k \in qs : k <= j
             IN  [matched |-> TRUE,
                  key     |-> SubSeq(s, 1, n),
                  value   |-> SubSeq(s, n + 5, last - 1)]
        ELSE NoMatch

\* re.search would try every start position (the leftmost match wins)
LibraryReSearch(line) ==
    LET hits == {i \in 1..Len(line) : LibraryReAt(line, i).matched}
    IN  IF hits = {} THEN NoMatch
        ELSE LibraryReAt(line, CHOOSE i \in hits : \A k \in hits : i <= k)

\* re.match: the pattern is anchored at the start of the line
LibraryReMatch(line) == LibraryReAt(line, 1)

-----------------------------------------------------------------------------
(* _get_mapped_libraries *)

LibraryCfgDir(out) == Path(out)

\* the value stored for one matching line
MappedValue(out, value) ==
    PathStr(PathResolve(PathJoin(LibraryCfgDir(out), PathParent(Path(value)))))

EmptyDict == [k \in {} |-> <<>>]

RECURSIVE get_mapped_libraries(_, _, _)
get_mapped_libraries(out, lines, acc) ==
    IF lines = <<>> THEN acc
    ELSE LET m == LibraryReMatch(Head(lines))
         IN  get_mapped_libraries(out, Tail(lines),
                IF m.matched
                THEN (m.key :> MappedValue(out, m.value)) @@ acc
                ELSE acc)


-----------------------------------------------------------------------------
(* Process(args, cwd, env) followed by consume_output() *)

\* How one subprocess can end: it exits with status zero, it exits with another
\* status (consume_output raises Process.NonZeroExitCode), or it cannot be
\* started at all (the constructor raises OSError).
ProcOutcomes == {"exit0", "nonzero", "oserror"}

ProcessRaises(outcome) == outcome # "exit0"

-----------------------------------------------------------------------------
(* create_library *)

AlwaysRemap(library_name, path, mapped) == FALSE

\* the early return of create_library
AlreadyMapped(library_name, path, mapped) ==
    library_name \in DOMAIN mapped /\ mapped[library_name] = path

Invocation(tool, library_name, path) ==
    [tool |-> tool, library_name |-> library_name, path |-> path]

\* The whole call: the files that exist afterwards, the subprocesses started,
\* in order, and whether the call ended by an exception.
create_library(library_name, path, mapped, exists, vlib_outcome, vmap_outcome) ==
    LET apath     == PathStr(PathResolve(PathParent(Path(path))))
        exists1   == exists \cup {apath}
        need_vlib == path \notin exists1
        vlib      == IF need_vlib
                     THEN << Invocation("vlib", library_name, path) >> ELSE <<>>
        vlib_fail == need_vlib /\ ProcessRaises(vlib_outcome)
        exists2   == IF need_vlib /\ ~vlib_fail THEN exists1 \cup {path} ELSE exists1
    IN  IF vlib_fail
        THEN [storage |-> exists2, invocations |-> vlib, raised |-> TRUE,
              mapped_by_tool |-> FALSE]
        ELSE IF AlreadyMapped(library_name, path, mapped)
        THEN [storage |-> exists2, invocations |-> vlib, raised |-> FALSE,
              mapped_by_tool |-> FALSE]
        ELSE [storage |-> exists2,
              invocations |-> vlib \o << Invocation("vmap", library_name, path) >>,
              raised |-> ProcessRaises(vmap_outcome),
              mapped_by_tool |-> ~ProcessRaises(vmap_outcome)]

-----------------------------------------------------------------------------
(* The library.cfg file *)

FormatEntry(name, value) == name \o <<" ", "=", " ", Quote>> \o value \o <<Quote>>

\* what _create_library_cfg writes: the $INCLUDE of <prefix>/../vlib/library.cfg,
\* for the prefix /p/bin
IncludeLine ==
    <<"$","I","N","C","L","U","D","E"," ","="," ",Quote>>
    \o PathStr(PathJoin(PathJoin(PathParent(Path(<<"/","p","/","b","i","n">>)),
                                 Path(<<"v","l","i","b">>)),
                        Path(<<"l","i","b","r","a","r","y",".","c","f","g">>)))
    \o <<Quote>>

\* lines of other kinds found in the file: a comment, and an assignment whose
\* name is not made of letters and underscores only
OtherLines == << <<"#"," ","x">>, <<"l","1"," ","="," ",Quote,"a",Quote>> >>

LibNames == { <<"l","i","b">>, <<"t","b","_">> }

\* paths as the mapping tool may write them
CfgValues ==
    { <<"a","/","x">>, <<"/","o","/","a","/","x">>, <<".",".","/","a">>,
      <<"a","/",".",".","/","x">>, <<".","/","a">>, <<"a">>, <<>> }

OutputPaths == { <<"/","o">>, <<"o">> }

\* library directories of the project
LibDirs == { <<"/","o","/","a">>, <<"/","w","/","o","/","a">> }

\* what exists on disk when the adapter starts
InitialStorage == { {}, { <<"/","o","/","a">> }, LibDirs }

\* the paths the mapping tool writes
ToolValues == { <<"a","/","x">>, <<"/","o","/","a","/","x">> }

Entries == {FormatEntry(n, v) : n \in LibNames, v \in CfgValues}

RECURSIVE SeqsUpTo(_, _)
SeqsUpTo(S, n) ==
    IF n = 0 THEN { <<>> }
    ELSE LET shorter == SeqsUpTo(S, n - 1)
         IN  shorter \cup {Append(q, x) : q \in shorter, x \in S}

NonEntryPrefixes == { <<IncludeLine>>, <<IncludeLine>> \o OtherLines }

\* the entries of a file: none, one, or two (the same library twice, or two
\* libraries)
EntryLists ==
    { <<>> } \cup { <<e>> : e \in Entries }
    \cup { << FormatEntry(<<"l","i","b">>, <<"a">>),
              FormatEntry(n, <<"/","o","/","a","/","x">>) >> : n \in LibNames }

CfgFiles == {pre \o es : pre \in NonEntryPrefixes, es \in EntryLists}

IsEntryOf(line, name) ==
    LET m == LibraryReMatch(line) IN m.matched /\ m.key = name

\* The mapping tool, run successfully, leaves one entry for the library in the
\* file; the path it writes is the tool's own choice.
ToolMaps(cfg, name, value) ==
    LET NotOf(line) == ~IsEntryOf(line, name)
    IN  SelectSeq(cfg, NotOf) \o << FormatEntry(name, value) >>

NoCall ==
    [op |-> "none", library_name |-> <<>>, path |-> <<>>, mapped |-> EmptyDict,
     existed |-> FALSE, vlib_outcome |-> "exit0", invocations |-> <<>>,
     raised |-> FALSE]

InitLibrary ==
    /\ output_path \in OutputPaths
    /\ library_cfg \in CfgFiles
    /\ storage \in InitialStorage
    /\ libraries = <<>>
    /\ mapped_libraries = EmptyDict
    /\ pending = <<>>
    /\ lib_call = NoCall

\* the effect of one create_library call on the registry's state
CreateLibraryEffect(name, path, mapped, vlib_outcome, vmap_outcome, tool_value) ==
    LET r == create_library(name, path, mapped, storage, vlib_outcome, vmap_outcome)
    IN  /\ storage' = r.storage
        /\ library_cfg' = IF r.mapped_by_tool
                          THEN ToolMaps(library_cfg, name, tool_value)
                          ELSE library_cfg
        /\ lib_call' = [op |-> "create_library", library_name |-> name,
                        path |-> path, mapped |-> mapped,
                        existed |-> path \in storage,
                        vlib_outcome |-> vlib_outcome,
                        invocations |-> r.invocations, raised |-> r.raised]

\* Each behaviour is one call on the registry, made in the state the adapter
\* starts in.
Idle == lib_call.op = "none" /\ pending = <<>>

\* _get_mapped_libraries() called on its own
GetMappedLibraries ==
    /\ Idle
    /\ mapped_libraries' = get_mapped_libraries(output_path, library_cfg, EmptyDict)
    /\ lib_call' = [NoCall EXCEPT !.op = "get_mapped_libraries"]
    /\ UNCHANGED <<output_path, library_cfg, storage, libraries, pending>>
    /\ UNCHANGED othersLibrary

\* create_library(library_name, path, mapped_libraries) called on its own; the
\* mapping handed in is None (then empty), the one the file holds, or one
\* naming this library
CreateLibrary ==
    /\ Idle
    /\ \E name \in LibNames, path \in LibDirs,
          vlib_outcome \in ProcOutcomes, vmap_outcome \in ProcOutcomes,
          tool_value \in ToolValues :
          \E mapped \in {EmptyDict,
                         get_mapped_libraries(output_path, library_cfg, EmptyDict)}
                        \cup {name :> d : d \in LibDirs} :
              CreateLibraryEffect(name, path, mapped, vlib_outcome, vmap_outcome,
                                  tool_value)
    /\ UNCHANGED <<output_path, libraries, mapped_libraries, pending>>
    /\ UNCHANGED othersLibrary

\* project.get_libraries(): one or two libraries
Projects ==
    LET lib == [name |-> <<"l","i","b">>, directory |-> <<"/","o","/","a">>]
        tb  == [name |-> <<"t","b","_">>, directory |-> <<"/","w","/","o","/","a">>]
    IN  { <<lib>>, <<tb>>, <<lib, tb>>, <<tb, lib>> }

\* setup_library_mapping(project), up to its loop
SetupLibraryMapping ==
    /\ Idle
    /\ \E project \in Projects : pending' = project
    /\ mapped_libraries' = get_mapped_libraries(output_path, library_cfg, EmptyDict)
    /\ lib_call' = [NoCall EXCEPT !.op = "get_mapped_libraries"]
    /\ UNCHANGED <<output_path, library_cfg, storage, libraries>>
    /\ UNCHANGED othersLibrary

\* one iteration of the loop of setup_library_mapping; an exception ends the loop
SetupLibraryMappingLoop ==
    /\ pending # <<>>
    /\ LET library == Head(pending)
       IN  /\ libraries' = Append(libraries, library)
           /\ \E vlib_outcome \in ProcOutcomes, vmap_outcome \in ProcOutcomes,
                 tool_value \in ToolValues :
                 CreateLibraryEffect(library.name, library.directory,
                                     mapped_libraries, vlib_outcome, vmap_outcome,
                                     tool_value)
    /\ pending' = IF lib_call'.raised THEN <<>> ELSE Tail(pending)
    /\ UNCHANGED <<output_path, mapped_libraries>>
    /\ UNCHANGED othersLibrary

NextLibrary ==
    \/ GetMappedLibraries
    \/ CreateLibrary
    \/ SetupLibraryMapping
    \/ SetupLibraryMappingLoop

-----------------------------------------------------------------------------
(* compile_vhdl_file_command *)

\* VHDL standards are ordered by their year
VhdlStandards == {1993, 2002, 2008, 2019}

STD_2008 == 2008

\* str(vhdl_standard)
VhdlStandardStr(vhdl_standard) ==
    CASE vhdl_standard = 1993 -> "93"
      [] vhdl_standard = 2002 -> "2002"
      [] vhdl_standard = 2008 -> "2008"
      [] vhdl_standard = 2019 -> "2019"

\* _std_str: the flag, or ValueError for a standard above 2008
std_str(vhdl_standard) ==
    IF vhdl_standard <= STD_2008
    THEN [ok |-> TRUE, flag |-> "-" \o VhdlStandardStr(vhdl_standard)]
    ELSE [ok |-> FALSE, flag |-> ""]

\* the adapter's prefix and the directory of library.cfg, as the builder uses them
Prefix == "/p/bin"

JobRoot == "/o"

compile_vhdl_std_first(file) ==
    << Prefix \o "/vcom", "-quiet", "-j", JobRoot >>
    \o << std_str(file.vhdl_standard).flag >>
    \o file.vcom_flags
    \o << "-work", file.library_name, file.name >>

compile_vhdl_file_command(file) ==
    << Prefix \o "/vcom", "-quiet", "-j", JobRoot >>
    \o file.vcom_flags
    \o << std_str(file.vhdl_standard).flag,
          "-work", file.library_name, file.name >>

\* per-file flags a user may set in activehdl.vcom_flags; a user may name a
\* language standard there
VcomFlags == {"-dbg", "-O3", "-2008", "-93"}

SourceFiles ==
    [vhdl_standard : VhdlStandards,
     vcom_flags    : SeqsUpTo(VcomFlags, MaxFlags),
     library_name  : {"lib", "tb_lib"},
     name          : {"tb.vhd", "src/pkg.vhd"}]

NoCommand == [status |-> "none", args |-> <<>>]

InitCompile ==
    /\ source_file \in SourceFiles
    /\ compile_result = NoCommand

\* compile_vhdl_file_command(source_file): the argument vector, or ValueError
CompileVhdlFileCommand ==
    /\ compile_result.status = "none"
    /\ compile_result' =
          IF std_str(source_file.vhdl_standard).ok
          THEN [status |-> "ok", args |-> compile_vhdl_file_command(source_file)]
          ELSE [status |-> "ValueError", args |-> <<>>]
    /\ UNCHANGED source_file
    /\ UNCHANGED othersCompile

NextCompile == CompileVhdlFileCommand

-----------------------------------------------------------------------------
(* Version and VersionConsumer *)

Digits == {"0","1","2","3","4","5","6","7","8","9"}

DigitOrder == <<"0","1","2","3","4","5","6","7","8","9">>

DigitValue(c) == (CHOOSE i \in 1..Len(DigitOrder) : DigitOrder[i] = c) - 1

\* int(text) for a run of digits
RECURSIVE ParseInt(_, _)
ParseInt(s, acc) ==
    IF s = <<>> THEN acc ELSE ParseInt(Tail(s), 10 * acc + DigitValue(Head(s)))

\* The match of _version_re starting at position start of the line: digits, a
\* dot, digits, an optional letter, a dot, digits, a dot, digits.  Each run of
\* digits is the longest one: a shorter run would be followed by a digit where
\* the pattern wants a dot or a letter.
VersionReAt(line, start) ==
    LET s   == SubSeq(line, start, Len(line))
        At(i) == IF i <= Len(s) THEN s[i] ELSE ""
        d1  == PrefixLen(s, Digits)
        r2  == SubSeq(s, d1 + 2, Len(s))
        d2  == PrefixLen(r2, Digits)
        p   == d1 + 1 + d2 + 1
        has == At(p) \in Letters
        q   == IF has THEN p + 1 ELSE p
        d3  == PrefixLen(SubSeq(s, q + 1, Len(s)), Digits)
        d4  == PrefixLen(SubSeq(s, q + d3 + 2, Len(s)), Digits)
    IN  IF /\ d1 >= 1
           /\ At(d1 + 1) = "."
           /\ d2 >= 1
           /\ At(q) = "."
           /\ d3 >= 1
           /\ At(q + d3 + 1) = "."
           /\ d4 >= 1
        THEN [matched      |-> TRUE,
              major        |-> ParseInt(SubSeq(s, 1, d1), 0),
              minor        |-> ParseInt(SubSeq(r2, 1, d2), 0),
              minor_letter |-> IF has THEN At(p) ELSE ""]
        ELSE [matched |-> FALSE, major |-> 0, minor |-> 0, minor_letter |-> ""]

\* _version_re.search(line): the leftmost position at which the pattern matches
VersionReSearch(line) ==
    LET hits == {i \in 1..Len(line) : VersionReAt(line, i).matched}
    IN  IF hits = {} THEN VersionReAt(<<>>, 1)
        ELSE VersionReAt(line, CHOOSE i \in hits : \A k \in hits : i <= k)

None == [none |-> TRUE]

Version(major, minor, minor_letter) ==
    [none |-> FALSE, major |-> major, minor |-> minor, minor_letter |-> minor_letter]

\* the order of python strings of at most one letter
LetterOrder ==
    <<"A","B","C","D","E","F","G","H","I","J","K","L","M","N","O","P","Q","R",
      "S","T","U","V","W","X","Y","Z",
      "a","b","c","d","e","f","g","h","i","j","k","l","m","n","o","p","q","r",
      "s","t","u","v","w","x","y","z">>

LetterRank(l) ==
    IF l = "" THEN 0 ELSE CHOOSE i \in 1..Len(LetterOrder) : LetterOrder[i] = l

\* Version._compare
VersionCompare(v, other, greater_than, less_than, equal_to) ==
    IF v.major > other.major THEN greater_than
    ELSE IF v.major < other.major THEN less_than
    ELSE IF v.minor > other.minor THEN greater_than
    ELSE IF v.minor < other.minor THEN less_than
    ELSE IF LetterRank(v.minor_letter) > LetterRank(other.minor_letter) THEN greater_than
    ELSE IF LetterRank(v.minor_letter) < LetterRank(other.minor_letter) THEN less_than
    ELSE equal_to

\* Version.__lt__
VersionLt(v, other) == VersionCompare(v, other, FALSE, TRUE, FALSE)

\* Version.__ge__ as functools.total_ordering derives it from __lt__
VersionGe(v, other) == ~VersionLt(v, other)

KeepFirstVersion(version, line) ==
    LET match == VersionReSearch(line)
    IN  IF match.matched /\ version = None
        THEN Version(match.major, match.minor, match.minor_letter)
        ELSE version

\* VersionConsumer.__call__: the consumer's version after one more line
VersionConsumerCall(version, line) ==
    LET match == VersionReSearch(line)
    IN  IF match.matched
        THEN Version(match.major, match.minor, match.minor_letter)
        ELSE version

-----------------------------------------------------------------------------
(* supports_vhdl_package_generics *)

MinMajor == 10

MinMinor == 1

\* lines the compiler may print for -version
BannerLines ==
    { <<"v"," ","1","0",".","1","a",".","2",".","3">>,
      <<"9",".","3",".","1",".","2">>,
      <<"1","2",".","0",".","0",".","1","x">>,
      <<"a","b","c">>,
      <<"1",".","2",".","3">> }

InitProbe ==
    /\ probe_output \in SeqsUpTo(BannerLines, MaxLines)
    /\ probe_outcome \in ProcOutcomes
    /\ probe_pc = "start"
    /\ probe_fed = 0
    /\ consumer_version = None
    /\ probe_result = "none"

\* Process([vcom, -version]) and VersionConsumer(): a binary that cannot be
\* started raises in the constructor, and nothing handles it
ProbeLaunch ==
    /\ probe_pc = "start"
    /\ probe_pc' = IF probe_outcome = "oserror" THEN "raised" ELSE "consuming"
    /\ UNCHANGED <<probe_output, probe_outcome, probe_fed, consumer_version,
                   probe_result>>
    /\ UNCHANGED othersProbe

\* consume_output hands the next line to the consumer, which returns True
ProbeConsumeLine ==
    /\ probe_pc = "consuming"
    /\ probe_fed < Len(probe_output)
    /\ probe_fed' = probe_fed + 1
    /\ consumer_version' = VersionConsumerCall(consumer_version,
                                               probe_output[probe_fed + 1])
    /\ UNCHANGED <<probe_output, probe_outcome, probe_pc, probe_result>>
    /\ UNCHANGED othersProbe

\* the end of the output: consume_output raises for a nonzero exit status, or
\* returns and the capability is decided from the version
ProbeFinish ==
    /\ probe_pc = "consuming"
    /\ probe_fed = Len(probe_output)
    /\ IF ProcessRaises(probe_outcome)
       THEN /\ probe_pc' = "raised"
            /\ UNCHANGED probe_result
       ELSE /\ probe_pc' = "returned"
            /\ probe_result' =
                  IF consumer_version # None
                  THEN VersionGe(consumer_version, Version(MinMajor, MinMinor, ""))
                  ELSE FALSE
    /\ UNCHANGED <<probe_output, probe_outcome, probe_fed, consumer_version>>
    /\ UNCHANGED othersProbe

NextProbe ==
    \/ ProbeLaunch
    \/ ProbeConsumeLine
    \/ ProbeFinish

-----------------------------------------------------------------------------
(* The generated tcl: vunit_load, vunit_run and the batch script *)

Stmt(op, arg) == [op |-> op, arg |-> arg]

create_batch_script_unchecked_load(common_file_name, load_only) ==
    << Stmt("source", common_file_name),
       Stmt("set failed", "vunit_load") >>
    \o (IF ~load_only
        THEN << Stmt("set failed", "vunit_run"),
                Stmt("if failed", "quit -code 1") >>
        ELSE <<>>)
    \o << Stmt("quit", "-code 0") >>

\* _create_batch_script: the statements of batch.tcl, in order
create_batch_script(common_file_name, load_only) ==
    << Stmt("source", common_file_name),
       Stmt("set failed", "vunit_load"),
       Stmt("if failed", "quit -code 1") >>
    \o (IF ~load_only
        THEN << Stmt("set failed", "vunit_run"),
                Stmt("if failed", "quit -code 1") >>
        ELSE <<>>)
    \o << Stmt("quit", "-code 0") >>

\* vhdl_assert_stop_level_mapping
BreakLevel(vhdl_assert_stop_level) ==
    CASE vhdl_assert_stop_level = "warning" -> 1
      [] vhdl_assert_stop_level = "error"   -> 2
      [] vhdl_assert_stop_level = "failure" -> 3

\* proc vunit_load: what it returns and the global it leaves, given whether the
\* vsim command fails
vunit_load(vsim_failed, level, breaklevel_before) ==
    IF vsim_failed
    THEN [returns |-> "true", breakassertlevel |-> breaklevel_before]
    ELSE [returns |-> "false", breakassertlevel |-> BreakLevel(level)]

\* proc vunit_run: what it returns after run -all, given what is_test_suite_done
\* says; the stack trace is printed inside catch, so its failure changes nothing
vunit_run(is_test_suite_done, bt_failed) ==
    IF ~is_test_suite_done THEN "true" ELSE "false"

CommonFile == "/o/t1/activehdl/common.tcl"

InitBatch ==
    /\ elaborate_only \in BOOLEAN
    /\ batch_script = create_batch_script(CommonFile, elaborate_only)
    /\ vsim_fails \in BOOLEAN
    /\ suite_done \in BOOLEAN
    /\ bt_fails \in BOOLEAN
    /\ assert_stop_level \in {"warning", "error", "failure"}
    /\ tcl_pc = 1
    /\ tcl_sourced = FALSE
    /\ tcl_failed = "unset"
    /\ tcl_exit = "none"
    /\ breakassertlevel = 0
    /\ load_calls = 0
    /\ run_calls = 0

TclRunning == tcl_exit = "none" /\ tcl_pc \in 1..Len(batch_script)

TclAt(op) == TclRunning /\ batch_script[tcl_pc].op = op

TclInputs == <<elaborate_only, batch_script, vsim_fails, suite_done, bt_fails,
               assert_stop_level>>

\* source "<common file>": vunit_load and vunit_run become defined
TclSource ==
    /\ TclAt("source")
    /\ tcl_sourced' = TRUE
    /\ tcl_pc' = tcl_pc + 1
    /\ UNCHANGED <<TclInputs, tcl_failed, tcl_exit, breakassertlevel, load_calls,
                   run_calls>>
    /\ UNCHANGED othersBatch

\* set failed [vunit_load]
TclSetFailedLoad ==
    /\ TclAt("set failed")
    /\ batch_script[tcl_pc].arg = "vunit_load"
    /\ tcl_sourced
    /\ LET r == vunit_load(vsim_fails, assert_stop_level, breakassertlevel)
       IN  /\ tcl_failed' = r.returns
           /\ breakassertlevel' = r.breakassertlevel
    /\ load_calls' = load_calls + 1
    /\ tcl_pc' = tcl_pc + 1
    /\ UNCHANGED <<TclInputs, tcl_sourced, tcl_exit, run_calls>>
    /\ UNCHANGED othersBatch

\* set failed [vunit_run]
TclSetFailedRun ==
    /\ TclAt("set failed")
    /\ batch_script[tcl_pc].arg = "vunit_run"
    /\ tcl_sourced
    /\ tcl_failed' = vunit_run(suite_done, bt_fails)
    /\ run_calls' = run_calls + 1
    /\ tcl_pc' = tcl_pc + 1
    /\ UNCHANGED <<TclInputs, tcl_sourced, tcl_exit, breakassertlevel, load_calls>>
    /\ UNCHANGED othersBatch

\* if {$failed} {quit -code 1}
TclIfFailedQuit ==
    /\ TclAt("if failed")
    /\ tcl_failed \in {"true", "false"}
    /\ IF tcl_failed = "true"
       THEN tcl_exit' = "code 1" /\ UNCHANGED tcl_pc
       ELSE tcl_pc' = tcl_pc + 1 /\ UNCHANGED tcl_exit
    /\ UNCHANGED <<TclInputs, tcl_sourced, tcl_failed, breakassertlevel, load_calls,
                   run_calls>>
    /\ UNCHANGED othersBatch

\* quit -code 0
TclQuit ==
    /\ TclAt("quit")
    /\ tcl_exit' = "code 0"
    /\ UNCHANGED <<TclInputs, tcl_pc, tcl_sourced, tcl_failed, breakassertlevel,
                   load_calls, run_calls>>
    /\ UNCHANGED othersBatch

NextBatch ==
    \/ TclSource
    \/ TclSetFailedLoad
    \/ TclSetFailedRun
    \/ TclIfFailedQuit
    \/ TclQuit

-----------------------------------------------------------------------------
(* merge_coverage *)

\* the orders in which a set can be iterated
Orderings(S) ==
    {q \in SeqsUpTo(S, Cardinality(S)) :
        Len(q) = Cardinality(S) /\ \A i, j \in 1..Len(q) : i # j => q[i] # q[j]}

RECURSIVE MergeInputsUnchecked(_, _)
MergeInputsUnchecked(order, exists) ==
    IF order = <<>> THEN [tokens |-> <<>>, warnings |-> <<>>]
    ELSE LET rest == MergeInputsUnchecked(Tail(order), exists)
         IN  [tokens   |-> << "-i", "{" \o Head(order) \o "}" >> \o rest.tokens,
              warnings |-> rest.warnings]

\* the loop of merge_coverage over self._coverage_files: the input flags added
\* to the command and the warnings logged
RECURSIVE MergeInputs(_, _)
MergeInputs(order, exists) ==
    IF order = <<>> THEN [tokens |-> <<>>, warnings |-> <<>>]
    ELSE LET rest == MergeInputs(Tail(order), exists)
         IN  IF Head(order) \in exists
             THEN [tokens   |-> << "-i", "{" \o Head(order) \o "}" >> \o rest.tokens,
                   warnings |-> rest.warnings]
             ELSE [tokens   |-> rest.tokens,
                   warnings |-> << Head(order) >> \o rest.warnings]

RECURSIVE Braced(_)
Braced(args) ==
    IF args = <<>> THEN <<>> ELSE << "{" \o Head(args) \o "}" >> \o Braced(Tail(args))

\* the words of the acdb merge command written to acdb_merge.tcl
merge_command(order, exists, args, file_name) ==
    LET inputs == MergeInputs(order, exists)
    IN  [tokens   |-> << "acdb", "merge" >> \o inputs.tokens \o Braced(args)
                      \o << "-o", "{" \o file_name \o "}" >>,
         warnings |-> inputs.warnings]

MergedFile == "/o/merged.acdb"

\* extra arguments of merge_coverage: None, or a list
MergeArgs == { <<>>, <<"-verbose">> }

NoMerge ==
    [done |-> FALSE, tokens |-> <<>>, warnings |-> <<>>, coverage_before |-> {},
     existing |-> {}, offered_before |-> {}, script_written |-> FALSE,
     launched |-> FALSE, outcome |-> "none", raised |-> FALSE]

-----------------------------------------------------------------------------
(* simulate(): script generation, the coverage artifact set, the process *)

\* the threads of the caller that run simulate()
Threads == {1, 2}

\* test configurations; each has its own output directory
Configs ==
    { [output_path |-> "/o/t1", library_name |-> "lib", entity_name |-> "tb_a",
       enable_coverage |-> TRUE],
      [output_path |-> "/o/t2", library_name |-> "lib", entity_name |-> "tb_b",
       enable_coverage |-> TRUE],
      [output_path |-> "/o/t3", library_name |-> "lib", entity_name |-> "tb_c",
       enable_coverage |-> FALSE] }

NoConfig ==
    [output_path |-> "", library_name |-> "", entity_name |-> "",
     enable_coverage |-> FALSE]

\* fix_path: it rewrites backslashes and blanks, which no path of the model holds
FixPath(path) == path

\* script_path and the three file names of simulate()
ScriptPath(out) == out \o "/activehdl"

CommonFileName(out) == ScriptPath(out) \o "/common.tcl"

BatchFileName(out) == ScriptPath(out) \o "/batch.tcl"

GuiFileName(out) == ScriptPath(out) \o "/gui.tcl"

GuiPath(out) == ScriptPath(out) \o "/gui"

CoverageFilePath(out) == out \o "/coverage.acdb"

CoverageAddLost(coverage, path) == {path}

\* self._coverage_files.add(coverage_file_path): one step of the interpreter
CoverageAdd(coverage, path) == coverage \cup {path}

CoverageAlwaysEnabled(config) == TRUE

\* config.sim_options.get(enable_coverage, False)
CoverageEnabled(config) == config.enable_coverage

\* _create_load_function: the flags of the vsim command of vunit_load, and the
\* coverage artifact set it leaves
create_load_function(config, out, coverage) ==
    IF CoverageEnabled(config)
    THEN [coverage_files |-> CoverageAdd(coverage, CoverageFilePath(out)),
          vsim_flags |-> << "-lib", config.library_name, config.entity_name,
                            "-acdb_file {" \o FixPath(CoverageFilePath(out)) \o "}" >>]
    ELSE [coverage_files |-> coverage,
          vsim_flags |-> << "-lib", config.library_name, config.entity_name >>]

\* _create_common_script
create_common_script(config, out, coverage) ==
    LET load == create_load_function(config, out, coverage)
    IN  [coverage_files |-> load.coverage_files,
         tcl |-> [kind |-> "common", result_file |-> out,
                  vsim_flags |-> load.vsim_flags]]

\* _create_gui_script
create_gui_script(common_file_name, libs) ==
    [kind |-> "gui", source |-> FixPath(common_file_name), vmap |-> libs]

BatchTcl(common_file_name, load_only) ==
    [kind |-> "batch", statements |-> create_batch_script(common_file_name, load_only)]

WriteEvent(path) == [ev |-> "write_file", path |-> path, cwd |-> ""]

RenewEvent(path) == [ev |-> "renew_path", path |-> path, cwd |-> ""]

LaunchEvent(script, cwd) == [ev |-> "Process", path |-> script, cwd |-> cwd]

AlwaysSuccess(outcome) == TRUE

\* _run_batch_file: False when consume_output raises NonZeroExitCode, else True
run_batch_file(outcome) == IF outcome = "nonzero" THEN FALSE ELSE TRUE

InitAdapter ==
    /\ gui \in BOOLEAN
    /\ elaborate_only \in BOOLEAN
    /\ coverage_files = {}
    /\ files = EmptyDict
    /\ cov_exists = {}
    /\ load_generated = {}
    /\ sim_pc = [t \in Threads |-> "idle"]
    /\ sim_cfg = [t \in Threads |-> NoConfig]
    /\ sim_proc = [t \in Threads |-> "none"]
    /\ sim_ret = [t \in Threads |-> "none"]
    /\ sim_events = [t \in Threads |-> <<>>]
    /\ overlapped = FALSE
    /\ last_merge = NoMerge
    /\ offered = {}

Busy(t) == sim_pc[t] \notin {"idle", "returned", "raised"}

\* the caller never runs one configuration on two threads at once
ConfigFree(t, config) ==
    \A u \in Threads \ {t} : Busy(u) => sim_cfg[u].output_path # config.output_path

BeginSimulate(t, config) ==
    /\ ConfigFree(t, config)
    /\ sim_pc' = [sim_pc EXCEPT ![t] = "create_common"]
    /\ sim_cfg' = [sim_cfg EXCEPT ![t] = config]
    /\ sim_proc' = [sim_proc EXCEPT ![t] = "none"]
    /\ sim_ret' = [sim_ret EXCEPT ![t] = "none"]
    /\ sim_events' = [sim_events EXCEPT ![t] = <<>>]
    /\ overlapped' = (overlapped \/ \E u \in Threads \ {t} : Busy(u))
    /\ UNCHANGED <<gui, elaborate_only, coverage_files, files, cov_exists,
                   load_generated, last_merge, offered>>
    /\ UNCHANGED othersSim

\* a thread enters simulate(output_path, test_suite_name, config)
SimStart(t) ==
    /\ sim_pc[t] = "idle"
    /\ \E config \in Configs : BeginSimulate(t, config)

\* the same thread enters simulate() again after an earlier call ended
SimAgain(t) ==
    /\ sim_pc[t] \in {"returned", "raised"}
    /\ \E config \in Configs : BeginSimulate(t, config)

\* line 429, the argument: _create_common_script builds the load function,
\* which records the coverage file
SimCreateCommon(t) ==
    /\ sim_pc[t] = "create_common"
    /\ coverage_files' =
          create_common_script(sim_cfg[t], sim_cfg[t].output_path,
                               coverage_files).coverage_files
    /\ load_generated' = load_generated \cup {sim_cfg[t]}
    /\ sim_pc' = [sim_pc EXCEPT ![t] = "write_common"]
    /\ UNCHANGED <<gui, elaborate_only, files, cov_exists, sim_cfg, sim_proc,
                   sim_ret, sim_events, last_merge, offered,
                   overlapped>>
    /\ UNCHANGED othersSim

SimWrite(t, path, content, next_pc) ==
    /\ files' = (path :> content) @@ files
    /\ sim_events' = [sim_events EXCEPT ![t] = Append(@, WriteEvent(path))]
    /\ sim_pc' = [sim_pc EXCEPT ![t] = next_pc]
    /\ UNCHANGED <<gui, elaborate_only, coverage_files, cov_exists, load_generated,
                   sim_cfg, sim_proc, sim_ret, last_merge, offered,
                   overlapped>>
    /\ UNCHANGED othersSim

\* line 429: write_file(common_file_name, ...)
SimWriteCommon(t) ==
    /\ sim_pc[t] = "write_common"
    /\ SimWrite(t, CommonFileName(sim_cfg[t].output_path),
                create_common_script(sim_cfg[t], sim_cfg[t].output_path,
                                     coverage_files).tcl,
                "write_gui")

\* line 430: write_file(gui_file_name, ...)
SimWriteGui(t) ==
    /\ sim_pc[t] = "write_gui"
    /\ SimWrite(t, GuiFileName(sim_cfg[t].output_path),
                create_gui_script(CommonFileName(sim_cfg[t].output_path), libraries),
                "write_batch")

\* lines 431-434: write_file(batch_file_name, ...)
SimWriteBatch(t) ==
    /\ sim_pc[t] = "write_batch"
    /\ SimWrite(t, BatchFileName(sim_cfg[t].output_path),
                BatchTcl(CommonFileName(sim_cfg[t].output_path), elaborate_only),
                IF gui THEN "renew_path" ELSE "launch")

\* lines 436-438: the scratch directory of the interactive session is recreated
SimRenewPath(t) ==
    /\ sim_pc[t] = "renew_path"
    /\ sim_events' = [sim_events EXCEPT
                        ![t] = Append(@, RenewEvent(GuiPath(sim_cfg[t].output_path)))]
    /\ sim_pc' = [sim_pc EXCEPT ![t] = "launch"]
    /\ UNCHANGED <<gui, elaborate_only, coverage_files, files, cov_exists,
                   load_generated, sim_cfg, sim_proc, sim_ret, last_merge, offered,
                   overlapped>>
    /\ UNCHANGED othersSim

\* _run_batch_file: Process(args, cwd, env); a simulator that cannot be started
\* raises an error that _run_batch_file does not catch
SimLaunch(t) ==
    /\ sim_pc[t] = "launch"
    /\ \E outcome \in ProcOutcomes :
          /\ sim_proc' = [sim_proc EXCEPT ![t] = outcome]
          /\ sim_pc' = [sim_pc EXCEPT
                          ![t] = IF outcome = "oserror" THEN "raised" ELSE "running"]
    /\ sim_events' = [sim_events EXCEPT ![t] =
          Append(@, IF gui
                    THEN LaunchEvent(GuiFileName(sim_cfg[t].output_path),
                                     GuiPath(sim_cfg[t].output_path))
                    ELSE LaunchEvent(BatchFileName(sim_cfg[t].output_path), JobRoot))]
    /\ UNCHANGED <<gui, elaborate_only, coverage_files, files, cov_exists,
                   load_generated, sim_cfg, sim_ret, last_merge, offered,
                   overlapped>>
    /\ UNCHANGED othersSim

\* the simulator ends; consume_output returns or raises NonZeroExitCode, and
\* simulate returns what _run_batch_file returns.  A run with coverage may or
\* may not have left its coverage file.
SimExit(t) ==
    /\ sim_pc[t] = "running"
    /\ sim_ret' = [sim_ret EXCEPT ![t] = run_batch_file(sim_proc[t])]
    /\ sim_pc' = [sim_pc EXCEPT ![t] = "returned"]
    /\ \E written \in BOOLEAN :
          cov_exists' = IF written /\ sim_cfg[t].enable_coverage
                        THEN cov_exists \cup {CoverageFilePath(sim_cfg[t].output_path)}
                        ELSE cov_exists
    /\ UNCHANGED <<gui, elaborate_only, coverage_files, files, load_generated,
                   sim_cfg, sim_proc, sim_events, last_merge, offered,
                   overlapped>>
    /\ UNCHANGED othersSim

SimStep(t) ==
    \/ SimCreateCommon(t)
    \/ SimWriteCommon(t)
    \/ SimWriteGui(t)
    \/ SimWriteBatch(t)
    \/ SimRenewPath(t)
    \/ SimLaunch(t)
    \/ SimExit(t)

\* two threads, one simulate() call each
NextSim == \E t \in Threads : SimStart(t) \/ SimStep(t)

-----------------------------------------------------------------------------
(* merge_coverage on the adapter *)

\* the artifacts a merge command names as inputs
InputsOf(tokens) ==
    {p \in coverage_files :
        \E i \in 1..(Len(tokens) - 1) :
            tokens[i] = "-i" /\ tokens[i + 1] = "{" \o FixPath(p) \o "}"}

\* merge_coverage(file_name, args), called while no simulate() is running: the
\* script is written, vsimsa is run on it, and a vsimsa that fails or cannot be
\* started raises
MergeCoverage ==
    /\ \A t \in Threads : ~Busy(t)
    /\ \E order \in Orderings(coverage_files), args \in MergeArgs,
          outcome \in ProcOutcomes :
          LET cmd == merge_command(order, cov_exists, args, FixPath(MergedFile))
          IN  /\ last_merge' =
                    [done |-> TRUE, tokens |-> cmd.tokens, warnings |-> cmd.warnings,
                     coverage_before |-> coverage_files,
                     existing |-> cov_exists \cap coverage_files,
                     offered_before |-> offered,
                     script_written |-> TRUE, launched |-> TRUE,
                     outcome |-> outcome, raised |-> ProcessRaises(outcome)]
              /\ offered' = offered \cup InputsOf(cmd.tokens)
    /\ UNCHANGED <<gui, elaborate_only, coverage_files, files, cov_exists,
                   load_generated, sim_pc, sim_cfg, sim_proc, sim_ret, sim_events,
                   overlapped>>
    /\ UNCHANGED othersSim

\* simulate() and merge_coverage() called one after the other on one thread
NextCoverage ==
    \/ SimStart(1)
    \/ SimAgain(1)
    \/ SimStep(1)
    \/ MergeCoverage

-----------------------------------------------------------------------------
(* Specifications: one per part of the adapter; the other parts stay unused *)

LibraryUnused ==
    /\ output_path = <<>>
    /\ library_cfg = <<>>
    /\ storage = {}
    /\ libraries = <<>>
    /\ mapped_libraries = EmptyDict
    /\ pending = <<>>
    /\ lib_call = NoCall

CompileUnused ==
    /\ source_file = [vhdl_standard |-> STD_2008, vcom_flags |-> <<>>,
                      library_name |-> "lib", name |-> "tb.vhd"]
    /\ compile_result = NoCommand

ProbeUnused ==
    /\ probe_output = <<>>
    /\ probe_outcome = "exit0"
    /\ probe_pc = "start"
    /\ probe_fed = 0
    /\ consumer_version = None
    /\ probe_result = "none"

BatchUnused ==
    /\ batch_script = <<>>
    /\ vsim_fails = FALSE
    /\ suite_done = FALSE
    /\ bt_fails = FALSE
    /\ assert_stop_level = "error"
    /\ tcl_pc = 1
    /\ tcl_sourced = FALSE
    /\ tcl_failed = "unset"
    /\ tcl_exit = "none"
    /\ breakassertlevel = 0
    /\ load_calls = 0
    /\ run_calls = 0

SimUnused ==
    /\ gui = FALSE
    /\ coverage_files = {}
    /\ files = EmptyDict
    /\ cov_exists = {}
    /\ load_generated = {}
    /\ sim_pc = [t \in Threads |-> "idle"]
    /\ sim_cfg = [t \in Threads |-> NoConfig]
    /\ sim_proc = [t \in Threads |-> "none"]
    /\ sim_ret = [t \in Threads |-> "none"]
    /\ sim_events = [t \in Threads |-> <<>>]
    /\ overlapped = FALSE
    /\ last_merge = NoMerge
    /\ offered = {}

StartLibrary ==
    /\ InitLibrary
    /\ CompileUnused
    /\ ProbeUnused
    /\ BatchUnused
    /\ SimUnused
    /\ elaborate_only = FALSE

StartCompile ==
    /\ InitCompile
    /\ LibraryUnused
    /\ ProbeUnused
    /\ BatchUnused
    /\ SimUnused
    /\ elaborate_only = FALSE

StartProbe ==
    /\ InitProbe
    /\ LibraryUnused
    /\ CompileUnused
    /\ BatchUnused
    /\ SimUnused
    /\ elaborate_only = FALSE

StartBatch ==
    /\ InitBatch
    /\ LibraryUnused
    /\ CompileUnused
    /\ ProbeUnused
    /\ SimUnused

StartSim ==
    /\ InitAdapter
    /\ LibraryUnused
    /\ CompileUnused
    /\ ProbeUnused
    /\ BatchUnused

StartCoverage ==
    /\ InitAdapter
    /\ LibraryUnused
    /\ CompileUnused
    /\ ProbeUnused
    /\ BatchUnused

SpecLibrary == StartLibrary /\ [][NextLibrary]_vars

SpecCompile == StartCompile /\ [][NextCompile]_vars

SpecProbe == StartProbe /\ [][NextProbe]_vars

SpecBatch == StartBatch /\ [][NextBatch]_vars

SpecSim == StartSim /\ [][NextSim]_vars

SpecCoverage == StartCoverage /\ [][NextCoverage]_vars

-----------------------------------------------------------------------------
(* Properties of the library registry *)

CountTool(invocations, tool) ==
    Cardinality({i \in 1..Len(invocations) : invocations[i].tool = tool})

CreateLibraryDone == lib_call.op = "create_library"

MappedToSamePath ==
    /\ lib_call.library_name \in DOMAIN lib_call.mapped
    /\ lib_call.mapped[lib_call.library_name] = lib_call.path

\* the library-init subprocess was needed and did not end with status zero
VlibFailed == ~lib_call.existed /\ lib_call.vlib_outcome # "exit0"

SingleEntryRead(pre, name, value) ==
    /\ lib_call.op = "get_mapped_libraries"
    /\ library_cfg = pre \o << FormatEntry(name, value) >>

\* resolution of a path against the directory of the map file
ResolvedAgainstCfg(path) ==
    PathStr(PathResolve(PathJoin(Path(output_path), path)))

\* C5 as amended: when the map file holds the single entry name = path,
\* _get_mapped_libraries() returns a mapping whose only entry maps name to the
\* parent directory of the written path, resolved to absolute form relative to
\* the map file's directory; resolving the returned path again yields the same
\* path.
C5_RoundTripParent ==
    \A pre \in NonEntryPrefixes, name \in LibNames, value \in CfgValues :
        SingleEntryRead(pre, name, value) =>
            /\ DOMAIN mapped_libraries = {name}
            /\ mapped_libraries[name] = ResolvedAgainstCfg(PathParent(Path(value)))
            /\ ResolvedAgainstCfg(Path(mapped_libraries[name])) = mapped_libraries[name]

\* the file holds lib = a/x after the $INCLUDE line and other lines, and was read
C5_Witness ==
    /\ SingleEntryRead(<<IncludeLine>> \o OtherLines, <<"l","i","b">>, <<"a","/","x">>)
    /\ DOMAIN mapped_libraries = { <<"l","i","b">> }

\* C5 as stated: the returned path is the written path itself, resolved.
C5_AsStated ==
    \A pre \in NonEntryPrefixes, name \in LibNames, value \in CfgValues :
        SingleEntryRead(pre, name, value) =>
            /\ DOMAIN mapped_libraries = {name}
            /\ mapped_libraries[name] = ResolvedAgainstCfg(Path(value))
            /\ ResolvedAgainstCfg(Path(mapped_libraries[name])) = mapped_libraries[name]

-----------------------------------------------------------------------------
(* Properties of the compile command builder *)

Occurrences(args, flag) == {i \in 1..Len(args) : args[i] = flag}

SupportedStandard == source_file.vhdl_standard <= STD_2008

SourceStdFlag == "-" \o VhdlStandardStr(source_file.vhdl_standard)

FlagsHoldStdFlag ==
    \E i \in 1..Len(source_file.vcom_flags) : source_file.vcom_flags[i] = SourceStdFlag

\* C6 as amended: for a VHDL source file whose standard is at most 2008 and any
\* list of per-file vcom flags, the vector returned by compile_vhdl_file_command
\* is the four leading arguments, then the per-file flags, then the
\* language-standard flag, then -work, the library name and the file path; the
\* builder adds the standard flag once, right after the per-file flags, so the
\* vector holds it exactly once whenever the per-file flags do not hold it
\* themselves.
C6_StdFlagAfterFlags ==
    (compile_result.status # "none" /\ SupportedStandard) =>
        LET args  == compile_result.args
            flags == source_file.vcom_flags
            k     == 4 + Len(flags) + 1
        IN  /\ compile_result.status = "ok"
            /\ Len(args) = k + 3
            /\ SubSeq(args, 5, k - 1) = flags
            /\ args[k] = SourceStdFlag
            /\ args[k + 1] = "-work"
            /\ args[k + 2] = source_file.library_name
            /\ args[k + 3] = source_file.name
            /\ Occurrences(args, SourceStdFlag) \ (5..(k - 1)) = {k}
            /\ ~FlagsHoldStdFlag => Occurrences(args, SourceStdFlag) = {k}

\* a command built for a 2008 file with two per-file flags, none of them the
\* standard flag
C6_Witness ==
    /\ compile_result.status = "ok"
    /\ source_file.vhdl_standard = STD_2008
    /\ source_file.vcom_flags = <<"-dbg", "-O3">>
    /\ compile_result.args[7] = "-2008"

\* C6 as stated: the vector holds the standard flag exactly once, after all
\* per-file flags, whatever the per-file flags are.
C6_AsStated ==
    (compile_result.status # "none" /\ SupportedStandard) =>
        LET args  == compile_result.args
            flags == source_file.vcom_flags
        IN  /\ compile_result.status = "ok"
            /\ Cardinality(Occurrences(args, SourceStdFlag)) = 1
            /\ \A i \in Occurrences(args, SourceStdFlag) :
                  /\ i > 4 + Len(flags)
                  /\ SubSeq(args, 5, 4 + Len(flags)) = flags
                  /\ SubSeq(args, i + 1, Len(args))
                        = <<"-work", source_file.library_name, source_file.name>>

-----------------------------------------------------------------------------
(* Properties of the version probe *)

FedLines == SubSeq(probe_output, 1, probe_fed)

MatchingLines(lines) == {i \in 1..Len(lines) : VersionReSearch(lines[i]).matched}

VersionOfLine(line) ==
    LET m == VersionReSearch(line) IN Version(m.major, m.minor, m.minor_letter)

VersionOfLastMatch(lines) ==
    LET hits == MatchingLines(lines)
    IN  IF hits = {} THEN None
        ELSE VersionOfLine(lines[CHOOSE i \in hits : \A k \in hits : k <= i])

VersionOfFirstMatch(lines) ==
    LET hits == MatchingLines(lines)
    IN  IF hits = {} THEN None
        ELSE VersionOfLine(lines[CHOOSE i \in hits : \A k \in hits : i <= k])

\* C4 as amended: for every sequence of lines fed to the consumer, the resulting
\* version is the one parsed from the last line that matches the pattern; every
\* later matching line replaces the result of an earlier one, and if no line
\* matches the result is None.
C4_LastMatchWins == consumer_version = VersionOfLastMatch(FedLines)

\* two matching lines with different versions were fed
C4_Witness ==
    /\ probe_fed >= 2
    /\ {1, 2} \subseteq MatchingLines(FedLines)
    /\ VersionOfLine(FedLines[1]) # VersionOfLine(FedLines[2])
    /\ consumer_version # None

\* C4 as stated: the first matching line wins.
C4_AsStated == consumer_version = VersionOfFirstMatch(FedLines)

ProbeEnded == probe_pc \in {"returned", "raised"}

\* C8: when the compiler binary cannot be started, or prints no matching line,
\* supports_vhdl_package_generics returns False and no error reaches its caller.
C8_DegradesToUnsupported ==
    (ProbeEnded /\ (probe_outcome = "oserror" \/ MatchingLines(probe_output) = {})) =>
        (probe_pc = "returned" /\ probe_result = FALSE)

-----------------------------------------------------------------------------
(* Properties of the batch script *)

TclExited == tcl_exit # "none"

\* what the two functions report in this session
LoadReportsFailure == vunit_load(vsim_fails, assert_stop_level, 0).returns = "true"

RunReportsFailure == vunit_run(suite_done, bt_fails) = "true"

\* C2: executing batch.tcl, vunit_load is called once; if it reports failure
\* the session quits with status 1 and vunit_run is never called; if it
\* succeeds and elaborate-only is not requested, vunit_run is called exactly
\* once and the session quits with status 1 iff vunit_run reports failure; in
\* every other case the session quits with status 0.  Until it quits, the
\* session always has a next statement.
C2_BatchScriptOutcome ==
    /\ load_calls <= 1
    /\ run_calls <= 1
    /\ LoadReportsFailure => run_calls = 0
    /\ elaborate_only => run_calls = 0
    /\ ~TclExited => tcl_pc \in 1..Len(batch_script)
    /\ TclExited =>
          /\ load_calls = 1
          /\ LoadReportsFailure => tcl_exit = "code 1"
          /\ (~LoadReportsFailure /\ ~elaborate_only) =>
                /\ run_calls = 1
                /\ (tcl_exit = "code 1") <=> RunReportsFailure
          /\ (~LoadReportsFailure /\ (elaborate_only \/ ~RunReportsFailure)) =>
                tcl_exit = "code 0"

\* load succeeded, run was called once and failed, the session quit with 1
C2_Witness ==
    /\ tcl_exit = "code 1"
    /\ ~LoadReportsFailure
    /\ ~elaborate_only
    /\ RunReportsFailure
    /\ run_calls = 1

-----------------------------------------------------------------------------
(* Properties of simulate() *)

EventsAt(events, kind) == {i \in 1..Len(events) : events[i].ev = kind}

WrittenBefore(events, i, path) ==
    \E j \in 1..(i - 1) : events[j] = WriteEvent(path)

Ended(t) == sim_pc[t] \in {"returned", "raised"}

\* C3: in every simulate() call, in batch and in interactive mode, common.tcl,
\* gui.tcl and batch.tcl have all been written when the simulator process is
\* started; one process is started per call; and the value simulate() returns is
\* True iff that process exited with status zero.
C3_SimulateProtocol ==
    \A t \in Threads :
        LET events   == sim_events[t]
            out      == sim_cfg[t].output_path
            launches == EventsAt(events, "Process")
        IN  /\ \A i \in launches :
                  /\ WrittenBefore(events, i, CommonFileName(out))
                  /\ WrittenBefore(events, i, GuiFileName(out))
                  /\ WrittenBefore(events, i, BatchFileName(out))
                  /\ events[i].path = (IF gui THEN GuiFileName(out)
                                       ELSE BatchFileName(out))
            /\ Cardinality(launches) <= 1
            /\ sim_pc[t] \in {"running", "returned", "raised"} =>
                  Cardinality(launches) = 1
            /\ sim_pc[t] = "returned" =>
                  sim_ret[t] = (sim_proc[t] = "exit0")
            /\ sim_pc[t] # "returned" => sim_ret[t] = "none"

\* an interactive call whose process exited with a nonzero status returned False
C3_Witness ==
    /\ gui
    /\ sim_pc[1] = "returned"
    /\ sim_proc[1] = "nonzero"
    /\ sim_ret[1] = FALSE
    /\ Len(sim_events[1]) = 5

ScriptsOf(config) ==
    LET out == config.output_path
    IN  (CommonFileName(out) :> create_common_script(config, out, {}).tcl)
        @@ (GuiFileName(out) :> create_gui_script(CommonFileName(out), libraries))
        @@ (BatchFileName(out) :> BatchTcl(CommonFileName(out), elaborate_only))

\* one simulate() call run alone, as far as the files and the set go
SimulateAlone(state, config) ==
    [files |-> ScriptsOf(config) @@ state.files,
     coverage_files |-> create_common_script(config, config.output_path,
                                             state.coverage_files).coverage_files]

OneAfterTheOther(first, second) ==
    SimulateAlone(SimulateAlone([files |-> EmptyDict, coverage_files |-> {}], first),
                  second)

\* C9: two simulate() calls for different configurations on two threads: under
\* every interleaving each call writes only the three script files of its own
\* output directory, and when both have ended the script files and the
\* coverage artifact set are those of the two calls run one after the other;
\* the set holds the coverage file of every call that enabled coverage.
C9_InterleavingIsSerial ==
    /\ \A t \in Threads : \A i \in EventsAt(sim_events[t], "write_file") :
          sim_events[t][i].path \in DOMAIN ScriptsOf(sim_cfg[t])
    /\ (\A t \in Threads : Ended(t)) =>
          LET serial == OneAfterTheOther(sim_cfg[1], sim_cfg[2])
          IN  /\ files = serial.files
              /\ coverage_files = serial.coverage_files
              /\ \A t \in Threads :
                    sim_cfg[t].enable_coverage =>
                        CoverageFilePath(sim_cfg[t].output_path) \in coverage_files

\* two calls with coverage that overlapped in time have both ended
C9_Witness ==
    /\ \A t \in Threads : Ended(t) /\ sim_cfg[t].enable_coverage
    /\ overlapped
    /\ Cardinality(coverage_files) = 2
    /\ Cardinality(DOMAIN files) = 6

-----------------------------------------------------------------------------
(* Properties of merge_coverage and of the coverage artifact set *)

InputFlags(tokens) == {i \in 1..Len(tokens) : tokens[i] = "-i"}

InputFlagsFor(tokens, path) ==
    {i \in InputFlags(tokens) : i < Len(tokens) /\ tokens[i + 1] = "{" \o path \o "}"}

OutputFlags(tokens) == {i \in 1..Len(tokens) : tokens[i] = "-o"}

MissingAtMerge == last_merge.coverage_before \ last_merge.existing

\* C7: the command merge_coverage generates has exactly one -i flag for each
\* artifact of the set that exists on disk and none for a missing one, one
\* warning is logged per missing artifact, the command has a single -o flag
\* naming the merged file, and a missing artifact does not make the operation
\* fail: the script is written and vsimsa is run, and the call raises only when
\* vsimsa fails.
C7_MergeCommand ==
    last_merge.done =>
        LET tokens == last_merge.tokens
        IN  /\ \A p \in last_merge.existing :
                  Cardinality(InputFlagsFor(tokens, p)) = 1
            /\ \A p \in MissingAtMerge : InputFlagsFor(tokens, p) = {}
            /\ Cardinality(InputFlags(tokens)) = Cardinality(last_merge.existing)
            /\ Len(last_merge.warnings) = Cardinality(MissingAtMerge)
            /\ {last_merge.warnings[i] : i \in 1..Len(last_merge.warnings)}
                  = MissingAtMerge
            /\ OutputFlags(tokens) = {Len(tokens) - 1}
            /\ tokens[Len(tokens)] = "{" \o MergedFile \o "}"
            /\ last_merge.script_written
            /\ last_merge.launched
            /\ last_merge.raised <=> (last_merge.outcome # "exit0")

\* a merge with one artifact on disk and one missing, which did not fail
C7_Witness ==
    /\ last_merge.done
    /\ Cardinality(last_merge.existing) = 1
    /\ Cardinality(MissingAtMerge) = 1
    /\ ~last_merge.raised

CoverageRuns == {c \in load_generated : c.enable_coverage}

\* C10 as amended: across any sequence of simulate() and merge_coverage() calls
\* the coverage artifact set holds exactly the coverage file paths of the runs
\* that enabled coverage (one per output directory, added when the load script
\* is generated, never at merge time, none for a run without coverage), and
\* merge_coverage does not consume it: every merge_coverage() call offers every
\* accumulated artifact that exists on disk, also one that an earlier call
\* already offered.
C10_SetAccumulatesAndIsKept ==
    /\ coverage_files = {CoverageFilePath(c.output_path) : c \in CoverageRuns}
    /\ last_merge.done =>
          /\ last_merge.coverage_before \subseteq coverage_files
          /\ InputsOf(last_merge.tokens) = last_merge.existing

\* a second merge offered an artifact that an earlier merge had offered, and a
\* run without coverage has been made
C10_Witness ==
    /\ last_merge.done
    /\ InputsOf(last_merge.tokens) \cap last_merge.offered_before # {}
    /\ \E c \in load_generated : ~c.enable_coverage

\* C10 as stated: an artifact offered to one merge is not offered to a later one.
C10_AsStated ==
    /\ coverage_files = {CoverageFilePath(c.output_path) : c \in CoverageRuns}
    /\ last_merge.done =>
          InputsOf(last_merge.tokens) \cap last_merge.offered_before = {}

=============================================================================
